---- MODULE Spec2Model ----
(***************************************************************************)
(* Sequential tool-calling orchestration of backend/ai_generator.py:       *)
(* SequentialToolTracker, AIGenerator.generate_response,                   *)
(* _handle_tool_execution, _execute_tool_round and _get_final_response.    *)
(*                                                                         *)
(* The model capability (client.messages.create) and the tool manager      *)
(* (tool_manager.execute_tool) are the environment: every model call       *)
(* either fails or returns a response, every tool invocation either        *)
(* returns or raises.  One action is one step of generate_response between *)
(* two such external calls.                                                *)
(***************************************************************************)
EXTENDS Integers, Sequences, FiniteSets, TLC

VARIABLES
    pc,               \* position of generate_response
    tools,            \* argument tools: "none" (None), "empty" ([]), "some"
    tool_manager,     \* argument tool_manager: TRUE when supplied
    max_tool_rounds,  \* argument max_tool_rounds
    history,          \* argument conversation_history: "none", "empty", "some"
    api_params,       \* api_params built at lines 115-124
    entered,          \* TRUE once _handle_tool_execution has been entered
    tracker,          \* SequentialToolTracker of _handle_tool_execution
    messages,         \* local messages of _handle_tool_execution
    current_response, \* local current_response of _handle_tool_execution
    round_i,          \* index of the content block _execute_tool_round is at
    tool_calls,       \* local tool_calls of _execute_tool_round
    tool_results,     \* local tool_results of _execute_tool_round
    calls,            \* every client.messages.create call issued, in order
    invocations,      \* every tool_manager.execute_tool call issued, in order
    result,           \* what generate_response gave back to its caller
    probe,            \* last operation called on a tracker on its own, and
                      \* what it returned
    base_params,      \* self.base_params of the AIGenerator (lines 78-83)
    parked            \* the locals of a second generate_response invocation
                      \* on the same AIGenerator while it is not running

vars == <<pc, tools, tool_manager, max_tool_rounds, history, api_params,
          entered, tracker, messages, current_response, round_i, tool_calls,
          tool_results, calls, invocations, result, probe, base_params,
          parked>>

----------------------------------------------------------------------------
(* Bounds *)

MaxRounds == 2
MaxBlocks == 2
MaxAdds == 3
MaxSwitches == 2

----------------------------------------------------------------------------
(* Values *)

ToolsArgs == {"none", "empty", "some"}
HistoryArgs == {"none", "empty", "some"}

\* "text": a text block; "tool_use": a tool_use block; "bad": a block whose
\* type is tool_use but that lacks name/input/id (a malformed response).
BlockKinds == {"text", "tool_use", "bad"}

\* The content of a response: an optional leading text block, then tool_use
\* blocks; a malformed block, if any, is the last one looked at.
Shapes ==
    {s \in UNION {[1..n -> BlockKinds] : n \in 0..MaxBlocks} :
        \A i \in 1..Len(s) : /\ (s[i] = "text" => i = 1)
                             /\ (s[i] = "bad" => i = Len(s))}

\* The shapes used when two invocations run on one generator.
ShapesTwo == {<<"text">>, <<"tool_use">>, <<"bad">>}

ToolName(i) == IF i % 2 = 1 THEN "search_course_content" ELSE "get_course_outline"

\* Block i of the response to model call k.
MkBlock(k, i, kind) ==
    IF kind = "text"
    THEN [type |-> "text", wf |-> TRUE, text |-> k, name |-> "", input |-> 0, id |-> 0]
    ELSE IF kind = "tool_use"
    THEN [type |-> "tool_use", wf |-> TRUE, text |-> 0, name |-> ToolName(i),
          input |-> 10 * k + i, id |-> 10 * k + i]
    ELSE [type |-> "tool_use", wf |-> FALSE, text |-> 0, name |-> "", input |-> 0, id |-> 0]

MkResponse(k, stop, shape) ==
    [stop_reason |-> stop,
     content |-> [i \in 1..Len(shape) |-> MkBlock(k, i, shape[i])]]

\* The responses the model capability may give to call k: a response that
\* does not request tool use is a text answer.
Responses(k) ==
    {MkResponse(k, "tool_use", shape) :
        shape \in IF parked.id = 0 THEN Shapes ELSE ShapesTwo}
    \cup {MkResponse(k, "end_turn", <<"text">>)}

NoResponse == [stop_reason |-> "none", content |-> <<>>]

\* What execute_tool returns, or the message of what it raises, for a block.
ToolReturn(block) == 100 + block.id
ToolRaise(block) == 200 + block.id

----------------------------------------------------------------------------
(* SequentialToolTracker *)

\* Default values of the parameters max_rounds (line 21) and
\* max_tool_rounds (line 91).
DefaultMaxRounds == 2
DefaultMaxToolRounds == 2

\* SequentialToolTracker(...): max_rounds when the argument is given or not.
MaxRoundsArg(given, arg) == IF given THEN arg ELSE DefaultMaxRounds

MaxToolRoundsArg_more(given, arg) ==
    IF given THEN arg ELSE DefaultMaxToolRounds + 1

\* generate_response(...): max_tool_rounds when the argument is given or not.
MaxToolRoundsArg(given, arg) == IF given THEN arg ELSE DefaultMaxToolRounds

SequentialToolTracker(max_rounds) ==
    [max_rounds |-> max_rounds, rounds |-> <<>>, current_round |-> 0]

can_continue_le(t) == t.current_round <= t.max_rounds

can_continue(t) == t.current_round < t.max_rounds

add_round_twice(t, round_data) ==
    [t EXCEPT !.rounds = Append(@, round_data), !.current_round = @ + 2]

add_round_front(t, round_data) ==
    [t EXCEPT !.rounds = <<round_data>> \o @, !.current_round = @ + 1]

add_round_extend(t, round_data) ==
    [t EXCEPT !.rounds = Append(@, round_data), !.current_round = @ + 1,
              !.max_rounds = IF t.current_round + 1 > @
                             THEN t.current_round + 1 ELSE @]

add_round(t, round_data) ==
    [t EXCEPT !.rounds = Append(@, round_data), !.current_round = @ + 1]

SumCalls_rounds(rounds) == Len(rounds)

RECURSIVE SumCalls(_)
SumCalls(rounds) ==
    IF rounds = <<>> THEN 0
    ELSE Len(Head(rounds).tool_calls) + SumCalls(Tail(rounds))

get_total_tool_calls(t) == SumCalls(t.rounds)

ToolExecutionRound(round_number, calls_, results_, error) ==
    [round_number |-> round_number, tool_calls |-> calls_,
     tool_results |-> results_, ai_response |-> "None", error |-> error]

----------------------------------------------------------------------------
(* generate_response: pure parts *)

SYSTEM_PROMPT == "SYSTEM_PROMPT"

\* lines 108-112: the prior-conversation block is added for a truthy history.
SystemContent(h) ==
    IF h = "some"
    THEN [prompt |-> SYSTEM_PROMPT, previous |-> "some"]
    ELSE [prompt |-> SYSTEM_PROMPT, previous |-> "absent"]

UserQuery == [role |-> "user", text |-> "query", blocks |-> <<>>, results |-> <<>>]

AssistantTurn(content) ==
    [role |-> "assistant", text |-> "", blocks |-> content, results |-> <<>>]

ToolResultTurn(results) ==
    [role |-> "user", text |-> "", blocks |-> <<>>, results |-> results]

\* AIGenerator.__init__, line 83
Temperature == 0
MaxTokens == 800

BaseParams(model) ==
    [model |-> model, temperature |-> Temperature, max_tokens |-> MaxTokens]

\* {**self.base_params, ...}: a new dict with the keys of base_params and the
\* keys that follow; a key that follows overrides the one of base_params.
WithBase(r) ==
    [k \in DOMAIN base_params \cup DOMAIN r |->
        IF k \in DOMAIN r THEN r[k] ELSE base_params[k]]

\* lines 115-124: `if tools:` is false for None and for the empty list.
ApiParams(t, h) ==
    WithBase([messages |-> <<UserQuery>>,
              system |-> SystemContent(h),
              tools |-> IF t = "some" THEN "some" ELSE "absent",
              tool_choice |-> (t = "some")])

\* line 130
ShouldHandleTools(response, tm) == response.stop_reason = "tool_use" /\ tm

\* response.content[0].text: IndexError on an empty content, AttributeError
\* on a first block that is not a text block.
HasText(response) ==
    Len(response.content) > 0 /\ response.content[1].type = "text"

ReturnText_zero(response) ==
    IF HasText(response)
    THEN [status |-> "returned", value |-> 0, cause |-> "none"]
    ELSE [status |-> "raised", value |-> 0, cause |-> "text"]

ReturnText(response) ==
    IF HasText(response)
    THEN [status |-> "returned", value |-> response.content[1].text, cause |-> "none"]
    ELSE [status |-> "raised", value |-> 0, cause |-> "text"]

ModelFailure == [status |-> "raised", value |-> 0, cause |-> "model"]

Pending == [status |-> "pending", value |-> 0, cause |-> "none"]

----------------------------------------------------------------------------
(* _execute_tool_round and _handle_tool_execution: pure parts *)

\* lines 226-232
ToolCall(block) == [name |-> block.name, input |-> block.input, id |-> block.id]

SuccessResult_noid(block) ==
    [type |-> "tool_result", tool_use_id |-> 0,
     content |-> [prefix |-> "", body |-> ToolReturn(block)], is_error |-> FALSE]

SuccessResult_flagged(block) ==
    [type |-> "tool_result", tool_use_id |-> block.id,
     content |-> [prefix |-> "", body |-> ToolReturn(block)], is_error |-> TRUE]

\* lines 239-245
SuccessResult(block) ==
    [type |-> "tool_result", tool_use_id |-> block.id,
     content |-> [prefix |-> "", body |-> ToolReturn(block)], is_error |-> FALSE]

ErrorResult_unflagged(block) ==
    [type |-> "tool_result", tool_use_id |-> block.id,
     content |-> [prefix |-> "Tool execution error: ", body |-> ToolRaise(block)],
     is_error |-> FALSE]

\* lines 248-255
ErrorResult(block) ==
    [type |-> "tool_result", tool_use_id |-> block.id,
     content |-> [prefix |-> "Tool execution error: ", body |-> ToolRaise(block)],
     is_error |-> TRUE]

\* lines 172-178: the tool-result turn is appended only when there are results.
AppendRound_swapped(msgs, response, round_result) ==
    IF round_result.tool_results # <<>>
    THEN Append(Append(msgs, ToolResultTurn(round_result.tool_results)),
                AssistantTurn(response.content))
    ELSE Append(msgs, AssistantTurn(response.content))

AppendRound_noresults(msgs, response, round_result) ==
    Append(msgs, AssistantTurn(response.content))

AppendRound_fresh(msgs, response, round_result) ==
    IF round_result.tool_results # <<>>
    THEN <<UserQuery, AssistantTurn(response.content),
           ToolResultTurn(round_result.tool_results)>>
    ELSE <<UserQuery, AssistantTurn(response.content)>>

AppendRound(msgs, response, round_result) ==
    IF round_result.tool_results # <<>>
    THEN Append(Append(msgs, AssistantTurn(response.content)),
                ToolResultTurn(round_result.tool_results))
    ELSE Append(msgs, AssistantTurn(response.content))

NextParams_nosystem(msgs, base) ==
    WithBase([messages |-> msgs,
              system |-> SystemContent("none"),
              tools |-> IF base.tools = "absent" THEN "empty" ELSE base.tools,
              tool_choice |-> TRUE])

NextParams_notools(msgs, base) ==
    WithBase([messages |-> msgs, system |-> base.system, tools |-> "absent",
              tool_choice |-> FALSE])

\* lines 183-189
NextParams(msgs, base) ==
    WithBase([messages |-> msgs,
              system |-> base.system,
              tools |-> IF base.tools = "absent" THEN "empty" ELSE base.tools,
              tool_choice |-> TRUE])

FinalParams_base(msgs, base) ==
    WithBase([messages |-> base.messages, system |-> base.system,
              tools |-> "absent", tool_choice |-> FALSE])

FinalParams_tokens(msgs, base) ==
    WithBase([messages |-> msgs, system |-> base.system, tools |-> "absent",
              tool_choice |-> FALSE, max_tokens |-> 2 * MaxTokens])

\* lines 266-271
FinalParams(msgs, base) ==
    WithBase([messages |-> msgs, system |-> base.system, tools |-> "absent",
              tool_choice |-> FALSE])

\* line 167: the round number handed to _execute_tool_round.
RoundNumber(t) == t.current_round + 1

ErrorRoundNumber_same(t) == t.current_round

\* line 199: the round number of a round-level error record.
ErrorRoundNumber(t) == t.current_round + 1

\* lines 196-205: where control goes after the except branch (break).
AfterRoundError_loop == "loop"

AfterRoundError == "resolve"

IsFinal_never(response) == FALSE

IsFinal_any(response) == response.stop_reason # "none"

\* line 208
IsFinal(response) ==
    response.stop_reason # "none" /\ response.stop_reason # "tool_use"

----------------------------------------------------------------------------
(* Logs of the external calls *)

\* The invocation that is running: 1, or 2 while invocation 1 is parked.
Running == IF parked.id = 1 THEN 2 ELSE 1

CallEntry(kind, params, ok, response) ==
    [kind |-> kind, tools |-> params.tools, tool_choice |-> params.tool_choice,
     system |-> params.system, messages |-> params.messages,
     model |-> params.model, temperature |-> params.temperature,
     max_tokens |-> params.max_tokens,
     ok |-> ok, response |-> response,
     rounds_before |-> tracker.current_round,
     invs_before |-> Len(invocations),
     owner |-> Running]

InvocationEntry_noargs(block, ok) ==
    [name |-> block.name, input |-> 0, id |-> block.id, ok |-> ok,
     out |-> IF ok THEN ToolReturn(block) ELSE ToolRaise(block),
     round |-> tracker.current_round + 1, calls_before |-> Len(calls),
     packaged |-> Len(tool_results), owner |-> Running]

InvocationEntry(block, ok) ==
    [name |-> block.name, input |-> block.input, id |-> block.id, ok |-> ok,
     out |-> IF ok THEN ToolReturn(block) ELSE ToolRaise(block),
     round |-> tracker.current_round + 1, calls_before |-> Len(calls),
     packaged |-> Len(tool_results), owner |-> Running]

----------------------------------------------------------------------------
(* Initial state and actions *)

NoParams == [messages |-> <<>>, system |-> SystemContent("none"),
             tools |-> "absent", tool_choice |-> FALSE,
             model |-> "", temperature |-> 0, max_tokens |-> 0]

\* The model names an AIGenerator is constructed with.
ModelNames == {"model_a", "model_b"}

\* The arguments and locals of a generate_response invocation that has not
\* started; id 0: there is no second invocation.
NoFrame ==
    [pc |-> "idle", tools |-> "none", tool_manager |-> FALSE,
     max_tool_rounds |-> 1, history |-> "none", api_params |-> NoParams,
     entered |-> FALSE, tracker |-> SequentialToolTracker(0), messages |-> <<>>,
     current_response |-> NoResponse, round_i |-> 0, tool_calls |-> <<>>,
     tool_results |-> <<>>, result |-> Pending]

NoParked == [id |-> 0, switches |-> 0, frame |-> NoFrame]

NoProbe == [op |-> "none", flag |-> FALSE, num |-> 0, adds |-> 0, sum |-> 0]

\* The state before generate_response runs, for given arguments.
InitLocals(ns, hs) ==
    /\ pc = "idle"
    /\ tools \in ToolsArgs
    /\ tool_manager \in BOOLEAN
    /\ max_tool_rounds \in ns
    /\ history \in hs
    /\ api_params = NoParams
    /\ entered = FALSE
    /\ tracker = SequentialToolTracker(0)
    /\ messages = <<>>
    /\ current_response = NoResponse
    /\ round_i = 0
    /\ tool_calls = <<>>
    /\ tool_results = <<>>
    /\ calls = <<>>
    /\ invocations = <<>>
    /\ result = Pending
    /\ probe = NoProbe

InitWith(hs) ==
    /\ InitLocals(1..MaxRounds, hs)
    /\ base_params = BaseParams("model_a")
    /\ parked = NoParked

Init == InitWith({"some"})

\* generate_response is called: lines 107-124.
GenerateResponse ==
    /\ UNCHANGED <<probe, base_params, parked>>
    /\ pc = "idle"
    /\ api_params' = ApiParams(tools, history)
    /\ pc' = "first_call"
    /\ UNCHANGED <<tools, tool_manager, max_tool_rounds, history, entered,
                   tracker, messages, current_response, round_i, tool_calls,
                   tool_results, calls, invocations, result>>

\* line 127 raises: nothing catches it.
FirstCallFails ==
    /\ UNCHANGED <<probe, base_params, parked>>
    /\ pc = "first_call"
    /\ calls' = Append(calls, CallEntry("first", api_params, FALSE, NoResponse))
    /\ result' = ModelFailure
    /\ pc' = "done"
    /\ UNCHANGED <<tools, tool_manager, max_tool_rounds, history, api_params,
                   entered, tracker, messages, current_response, round_i,
                   tool_calls, tool_results, invocations>>

\* lines 127-136 and, on the tool branch, lines 158-160.
FirstCallReturns ==
    /\ UNCHANGED <<probe, base_params, parked>>
    /\ pc = "first_call"
    /\ \E response \in Responses(Len(calls) + 1) :
        /\ calls' = Append(calls, CallEntry("first", api_params, TRUE, response))
        /\ IF ShouldHandleTools(response, tool_manager)
           THEN /\ entered' = TRUE
                /\ tracker' = SequentialToolTracker(max_tool_rounds)
                /\ messages' = api_params.messages
                /\ current_response' = response
                /\ pc' = "loop"
                /\ UNCHANGED result
           ELSE /\ result' = ReturnText(response)
                /\ pc' = "done"
                /\ UNCHANGED <<entered, tracker, messages, current_response>>
    /\ UNCHANGED <<tools, tool_manager, max_tool_rounds, history, api_params,
                   round_i, tool_calls, tool_results, invocations>>

\* line 163: the while test; lines 221-222 when the body is entered.
WhileTest ==
    /\ UNCHANGED <<probe, base_params, parked>>
    /\ pc = "loop"
    /\ IF can_continue(tracker) /\ current_response.stop_reason = "tool_use"
       THEN /\ pc' = "round"
            /\ round_i' = 1
            /\ tool_calls' = <<>>
            /\ tool_results' = <<>>
       ELSE /\ pc' = "resolve"
            /\ UNCHANGED <<round_i, tool_calls, tool_results>>
    /\ UNCHANGED <<tools, tool_manager, max_tool_rounds, history, api_params,
                   entered, tracker, messages, current_response, calls,
                   invocations, result>>

\* lines 224-225: a block that is not a tool_use block is passed over.
SkipBlock ==
    /\ UNCHANGED <<probe, base_params, parked>>
    /\ pc = "round"
    /\ round_i <= Len(current_response.content)
    /\ current_response.content[round_i].type # "tool_use"
    /\ round_i' = round_i + 1
    /\ UNCHANGED <<pc, tools, tool_manager, max_tool_rounds, history,
                   api_params, entered, tracker, messages, current_response,
                   tool_calls, tool_results, calls, invocations, result>>

\* lines 226-245: execute_tool returns.
ToolCallReturns ==
    /\ UNCHANGED <<probe, base_params, parked>>
    /\ pc = "round"
    /\ round_i <= Len(current_response.content)
    /\ LET block == current_response.content[round_i] IN
        /\ block.type = "tool_use" /\ block.wf
        /\ tool_calls' = Append(tool_calls, ToolCall(block))
        /\ invocations' = Append(invocations, InvocationEntry(block, TRUE))
        /\ tool_results' = Append(tool_results, SuccessResult(block))
    /\ round_i' = round_i + 1
    /\ UNCHANGED <<pc, tools, tool_manager, max_tool_rounds, history,
                   api_params, entered, tracker, messages, current_response,
                   calls, result>>

\* lines 226-237 and 247-255: execute_tool raises and the inner except
\* packages the error.
ToolCallRaises ==
    /\ UNCHANGED <<probe, base_params, parked>>
    /\ pc = "round"
    /\ round_i <= Len(current_response.content)
    /\ LET block == current_response.content[round_i] IN
        /\ block.type = "tool_use" /\ block.wf
        /\ tool_calls' = Append(tool_calls, ToolCall(block))
        /\ invocations' = Append(invocations, InvocationEntry(block, FALSE))
        /\ tool_results' = Append(tool_results, ErrorResult(block))
    /\ round_i' = round_i + 1
    /\ UNCHANGED <<pc, tools, tool_manager, max_tool_rounds, history,
                   api_params, entered, tracker, messages, current_response,
                   calls, result>>

\* lines 226-232 raise outside the inner try (the block has no name, input
\* or id); the except branch of lines 196-205 records an error round.
RoundRaises ==
    /\ UNCHANGED <<probe, base_params, parked>>
    /\ pc = "round"
    /\ round_i <= Len(current_response.content)
    /\ LET block == current_response.content[round_i] IN
        block.type = "tool_use" /\ ~block.wf
    /\ tracker' = add_round(tracker,
           ToolExecutionRound(ErrorRoundNumber(tracker), <<>>, <<>>, "AttributeError"))
    /\ pc' = AfterRoundError
    /\ UNCHANGED <<tools, tool_manager, max_tool_rounds, history, api_params,
                   entered, messages, current_response, round_i, tool_calls,
                   tool_results, calls, invocations, result>>

\* lines 257-259, 169-178 and the test of line 181; lines 191-194 when the
\* cap is reached.
RoundEnd ==
    /\ UNCHANGED <<probe, base_params, parked>>
    /\ pc = "round"
    /\ round_i > Len(current_response.content)
    /\ LET round_result == ToolExecutionRound(RoundNumber(tracker),
                                              tool_calls, tool_results, "None")
           t2 == add_round(tracker, round_result)
       IN /\ tracker' = t2
          /\ messages' = AppendRound(messages, current_response, round_result)
          /\ IF can_continue(t2)
             THEN /\ pc' = "follow_up"
                  /\ UNCHANGED current_response
             ELSE /\ pc' = "resolve"
                  /\ current_response' = NoResponse
    /\ UNCHANGED <<tools, tool_manager, max_tool_rounds, history, api_params,
                   entered, round_i, tool_calls, tool_results, calls,
                   invocations, result>>

\* lines 183-190: the follow-up call returns.
FollowUpReturns ==
    /\ UNCHANGED <<probe, base_params, parked>>
    /\ pc = "follow_up"
    /\ \E response \in Responses(Len(calls) + 1) :
        /\ calls' = Append(calls, CallEntry("follow_up", NextParams(messages, api_params), TRUE, response))
        /\ current_response' = response
    /\ pc' = "loop"
    /\ UNCHANGED <<tools, tool_manager, max_tool_rounds, history, api_params,
                   entered, tracker, messages, round_i, tool_calls,
                   tool_results, invocations, result>>

\* line 190 raises inside the try of line 164: the except branch of lines
\* 196-205 records an error round and breaks.
FollowUpFails ==
    /\ UNCHANGED <<probe, base_params, parked>>
    /\ pc = "follow_up"
    /\ calls' = Append(calls, CallEntry("follow_up", NextParams(messages, api_params), FALSE, NoResponse))
    /\ tracker' = add_round(tracker,
           ToolExecutionRound(ErrorRoundNumber(tracker), <<>>, <<>>, "ModelError"))
    /\ pc' = AfterRoundError
    /\ UNCHANGED <<tools, tool_manager, max_tool_rounds, history, api_params,
                   entered, messages, current_response, round_i, tool_calls,
                   tool_results, invocations, result>>

\* lines 208-210: the latest response is terminal and its text is returned.
ResolveDirect ==
    /\ UNCHANGED <<probe, base_params, parked>>
    /\ pc = "resolve"
    /\ IsFinal(current_response)
    /\ result' = ReturnText(current_response)
    /\ pc' = "done"
    /\ UNCHANGED <<tools, tool_manager, max_tool_rounds, history, api_params,
                   entered, tracker, messages, current_response, round_i,
                   tool_calls, tool_results, calls, invocations>>

\* lines 211-213: the Final-Answer Fetcher is needed.
ResolveFinal ==
    /\ UNCHANGED <<probe, base_params, parked>>
    /\ pc = "resolve"
    /\ ~IsFinal(current_response)
    /\ pc' = "final"
    /\ UNCHANGED <<tools, tool_manager, max_tool_rounds, history, api_params,
                   entered, tracker, messages, current_response, round_i,
                   tool_calls, tool_results, calls, invocations, result>>

\* _get_final_response, lines 266-274: the call returns.
FinalReturns ==
    /\ UNCHANGED <<probe, base_params, parked>>
    /\ pc = "final"
    /\ \E response \in Responses(Len(calls) + 1) :
        /\ calls' = Append(calls, CallEntry("final", FinalParams(messages, api_params), TRUE, response))
        /\ result' = ReturnText(response)
    /\ pc' = "done"
    /\ UNCHANGED <<tools, tool_manager, max_tool_rounds, history, api_params,
                   entered, tracker, messages, current_response, round_i,
                   tool_calls, tool_results, invocations>>

\* _get_final_response, line 273 raises: nothing catches it.
FinalFails ==
    /\ UNCHANGED <<probe, base_params, parked>>
    /\ pc = "final"
    /\ calls' = Append(calls, CallEntry("final", FinalParams(messages, api_params), FALSE, NoResponse))
    /\ result' = ModelFailure
    /\ pc' = "done"
    /\ UNCHANGED <<tools, tool_manager, max_tool_rounds, history, api_params,
                   entered, tracker, messages, current_response, round_i,
                   tool_calls, tool_results, invocations>>

Next ==
    \/ GenerateResponse
    \/ FirstCallFails
    \/ FirstCallReturns
    \/ WhileTest
    \/ SkipBlock
    \/ ToolCallReturns
    \/ ToolCallRaises
    \/ RoundRaises
    \/ RoundEnd
    \/ FollowUpReturns
    \/ FollowUpFails
    \/ ResolveDirect
    \/ ResolveFinal
    \/ FinalReturns
    \/ FinalFails

Spec == Init /\ [][Next]_vars

----------------------------------------------------------------------------
(* A SequentialToolTracker used on its own, as the unit tests use it: any    *)
(* sequence of add_round, can_continue and get_total_tool_calls calls.       *)

\* The records a caller may hand to add_round.
RoundData(n) ==
    {ToolExecutionRound(n,
                        [i \in 1..c |-> [name |-> ToolName(i), input |-> i, id |-> i]],
                        <<>>, e) :
        c \in 0..MaxBlocks, e \in {"None", "AttributeError"}}

InitTrackerWith(max_rounds, op) ==
    /\ pc = "tracker"
    /\ tools = "none"
    /\ tool_manager = FALSE
    /\ history = "none"
    /\ api_params = NoParams
    /\ entered = FALSE
    /\ tracker = SequentialToolTracker(max_rounds)
    /\ messages = <<>>
    /\ current_response = NoResponse
    /\ round_i = 0
    /\ tool_calls = <<>>
    /\ tool_results = <<>>
    /\ calls = <<>>
    /\ invocations = <<>>
    /\ result = Pending
    /\ probe = [op |-> op, flag |-> FALSE, num |-> 0, adds |-> 0, sum |-> 0]
    /\ base_params = BaseParams("model_a")
    /\ parked = NoParked

InitTracker ==
    /\ max_tool_rounds \in 1..MaxRounds
    /\ InitTrackerWith(max_tool_rounds, "init")

TrackerFrame ==
    UNCHANGED <<pc, tools, tool_manager, max_tool_rounds, history, api_params,
                entered, messages, current_response, round_i, tool_calls,
                tool_results, calls, invocations, result, base_params, parked>>

\* tracker.add_round(round_data)
TrackerAddRound ==
    /\ pc = "tracker"
    /\ probe.adds < MaxAdds
    /\ \E round_data \in RoundData(probe.adds + 1) :
        /\ tracker' = add_round(tracker, round_data)
        /\ probe' = [op |-> "add_round", flag |-> can_continue(tracker), num |-> 0,
                     adds |-> probe.adds + 1,
                     sum |-> probe.sum + Len(round_data.tool_calls)]
    /\ TrackerFrame

\* tracker.can_continue()
TrackerCanContinue ==
    /\ pc = "tracker"
    /\ probe' = [probe EXCEPT !.op = "can_continue",
                              !.flag = can_continue(tracker), !.num = 0]
    /\ UNCHANGED tracker
    /\ TrackerFrame

\* tracker.get_total_tool_calls()
TrackerTotal ==
    /\ pc = "tracker"
    /\ probe' = [probe EXCEPT !.op = "get_total_tool_calls",
                              !.flag = FALSE, !.num = get_total_tool_calls(tracker)]
    /\ UNCHANGED tracker
    /\ TrackerFrame

NextTracker ==
    \/ TrackerAddRound
    \/ TrackerCanContinue
    \/ TrackerTotal

SpecTracker == InitTracker /\ [][NextTracker]_vars

----------------------------------------------------------------------------
(* generate_response with tools advertised, for every kind of               *)
(* conversation_history: None, the empty string, a non-empty string.        *)

InitHistory == InitWith(HistoryArgs) /\ tools = "some"

SpecHistory == InitHistory /\ [][Next]_vars

----------------------------------------------------------------------------
(* Vocabulary of the properties *)

Done == pc = "done"

LastCall == calls[Len(calls)]

WellFormed(response) == \A i \in 1..Len(response.content) : response.content[i].wf

RequestsToolUse(c) ==
    c.ok /\ c.response.stop_reason = "tool_use" /\ WellFormed(c.response)

IsToolUseBlock(b) == b.type = "tool_use"

ToolUseBlocks(content) == SelectSeq(content, IsToolUseBlock)

Ids(blocks) == [i \in 1..Len(blocks) |-> blocks[i].id]

ResultIds(results) == [i \in 1..Len(results) |-> results[i].tool_use_id]

FinalCalls == {k \in 1..Len(calls) : calls[k].kind = "final"}

\* The outcome of generate_response is the text of the last model call.
AnsweredByLastCall ==
    /\ (result.status = "returned" =>
            /\ LastCall.ok /\ HasText(LastCall.response)
            /\ result.value = LastCall.response.content[1].text)
    /\ (LastCall.ok /\ HasText(LastCall.response) => result.status = "returned")

----------------------------------------------------------------------------
(* Properties *)

\* C1: with tools and a tool manager supplied and max_tool_rounds = N, if
\* every tool-enabled model call returns a (well-formed) response that
\* requests tool use, generate_response issues N+1 model calls and executes N
\* rounds; the first N calls advertise the tools, the (N+1)-th advertises
\* none, and the string returned is the text of the (N+1)-th response.
C1_CapReached ==
    (/\ Done /\ tools = "some" /\ tool_manager
     /\ \A k \in 1..Len(calls) : calls[k].tools = "some" => RequestsToolUse(calls[k]))
    => /\ Len(calls) = max_tool_rounds + 1
       /\ tracker.current_round = max_tool_rounds
       /\ Len(tracker.rounds) = max_tool_rounds
       /\ \A j \in 1..Len(tracker.rounds) : tracker.rounds[j].error = "None"
       /\ \A k \in 1..max_tool_rounds :
            calls[k].tools = "some" /\ calls[k].tool_choice
       /\ LastCall.tools = "absent" /\ ~LastCall.tool_choice
       /\ LastCall.kind = "final"
       /\ AnsweredByLastCall

C1_Witness ==
    /\ Done /\ tools = "some" /\ tool_manager /\ max_tool_rounds = 2
    /\ \A k \in 1..Len(calls) : calls[k].tools = "some" => RequestsToolUse(calls[k])
    /\ Len(calls) = 3 /\ Len(invocations) >= 2
    /\ result.status = "returned" /\ result.value = 3

\* C2: if the first model response does not have stop_reason tool_use,
\* generate_response returns the text of that response, and it has issued one
\* model call, no tool invocation and no round, whatever tools, tool_manager
\* and max_tool_rounds are.
C2_DirectAnswer ==
    (/\ Len(calls) >= 1 /\ calls[1].ok
     /\ calls[1].response.stop_reason # "tool_use")
    => /\ Done
       /\ result.status = "returned"
       /\ result.value = calls[1].response.content[1].text
       /\ Len(calls) = 1
       /\ invocations = <<>>
       /\ ~entered /\ tracker.rounds = <<>>

C2_Witness ==
    /\ Done /\ Len(calls) = 1 /\ calls[1].ok
    /\ calls[1].response.stop_reason = "end_turn"
    /\ tools = "some" /\ tool_manager /\ max_tool_rounds = 2
    /\ result.status = "returned" /\ result.value = 1

\* C3: with a tool manager supplied, if the first response requests tool use
\* and the second response is terminal, generate_response issues two model
\* calls and as many tool invocations as the first response has tool_use
\* blocks, and returns the text of the second response.
C3_SingleRound ==
    (/\ Done /\ tool_manager /\ Len(calls) >= 2
     /\ RequestsToolUse(calls[1])
     /\ calls[2].ok /\ calls[2].response.stop_reason # "tool_use")
    => /\ Len(calls) = 2
       /\ Len(invocations) = Len(ToolUseBlocks(calls[1].response.content))
       /\ result.status = "returned"
       /\ result.value = calls[2].response.content[1].text

C3_Witness ==
    /\ Done /\ tool_manager /\ max_tool_rounds = 2 /\ Len(calls) = 2
    /\ RequestsToolUse(calls[1])
    /\ calls[2].kind = "follow_up"
    /\ calls[2].ok /\ calls[2].response.stop_reason = "end_turn"
    /\ Len(invocations) = 2
    /\ result.status = "returned" /\ result.value = 2

\* C4: a tool invocation that raises is not propagated: when its round
\* completes, the round is recorded under its number and counted, the
\* error-flagged result sits in the round and in the message history at the
\* position of its request, every later model call receives it, and
\* generate_response ends with the answer of a model call.
C4_ToolErrorIsolated ==
    /\ \A n \in 1..Len(invocations) :
        LET v == invocations[n] IN
        (/\ ~v.ok /\ Len(tracker.rounds) >= v.round
         /\ tracker.rounds[v.round].error = "None")
        => LET r == tracker.rounds[v.round] IN
           /\ r.round_number = v.round
           /\ tracker.current_round >= v.round
           /\ \E p \in 1..Len(r.tool_calls) :
                /\ r.tool_calls[p].id = v.id
                /\ Len(r.tool_results) = Len(r.tool_calls)
                /\ r.tool_results[p].tool_use_id = v.id
                /\ r.tool_results[p].is_error
                /\ \E m \in 1..(Len(messages) - 1) :
                     /\ messages[m].role = "assistant"
                     /\ Len(ToolUseBlocks(messages[m].blocks)) >= p
                     /\ ToolUseBlocks(messages[m].blocks)[p].id = v.id
                     /\ messages[m + 1].role = "user"
                     /\ messages[m + 1].results = r.tool_results
                     /\ \A k \in 1..Len(calls) :
                          calls[k].rounds_before >= v.round
                          => /\ Len(calls[k].messages) > m
                             /\ calls[k].messages[m + 1].results = r.tool_results
           /\ (Done => /\ \E k \in 1..Len(calls) : calls[k].rounds_before >= v.round
                       /\ result.cause \in {"none", "model", "text"}
                       /\ AnsweredByLastCall)

C4_Witness ==
    /\ Done
    /\ Len(invocations) = 2 /\ ~invocations[1].ok /\ invocations[2].ok
    /\ invocations[1].round = 1 /\ invocations[2].round = 1
    /\ Len(tracker.rounds) = 1 /\ tracker.rounds[1].error = "None"
    /\ tracker.rounds[1].tool_results[1].is_error
    /\ Len(calls) = 2 /\ calls[2].kind = "final"
    /\ result.status = "returned"

\* C5: in the message history of every model call, an assistant turn that
\* contains tool_use blocks is immediately followed by a user turn with one
\* tool_result per tool_use block, in the same order, whose tool_use_id is the
\* id of that block.
C5_ResultsFollowRequests ==
    \A k \in 1..Len(calls) :
        LET msgs == calls[k].messages IN
        \A m \in 1..Len(msgs) :
            (msgs[m].role = "assistant" /\ ToolUseBlocks(msgs[m].blocks) # <<>>)
            => /\ m < Len(msgs)
               /\ msgs[m + 1].role = "user"
               /\ ResultIds(msgs[m + 1].results) = Ids(ToolUseBlocks(msgs[m].blocks))

C5_Witness ==
    /\ Len(calls) = 3
    /\ Len(calls[3].messages) = 5
    /\ Len(ToolUseBlocks(calls[3].messages[2].blocks)) = 2
    /\ Len(calls[3].messages[3].results) = 2
    /\ Len(calls[3].messages[5].results) = 1

\* C6: the Final-Answer Fetcher issues one model call with the accumulated
\* history, the system content and no tools, and whatever the response is
\* (one that requests tool use included) it is returned as the final text,
\* with no tool invocation and no model call after it.
C6_FetcherAlwaysReturns ==
    (Done /\ Len(calls) >= 1 /\ LastCall.kind = "final" /\ LastCall.ok)
    => /\ Cardinality(FinalCalls) = 1
       /\ LastCall.tools = "absent" /\ ~LastCall.tool_choice
       /\ LastCall.messages = messages
       /\ LastCall.system = api_params.system
       /\ LastCall.invs_before = Len(invocations)
       /\ result.status = "returned"

\* C7: when executing a round raises, an error round with empty tool_calls
\* and tool_results is recorded, the loop is left, no tool-enabled model call
\* and no tool invocation follows, and the Final-Answer Fetcher is called
\* once and answers instead of the exception.
C7_RoundErrorFallsThrough ==
    \A j \in 1..Len(tracker.rounds) :
        tracker.rounds[j].error = "AttributeError"
        => /\ tracker.rounds[j].tool_calls = <<>>
           /\ tracker.rounds[j].tool_results = <<>>
           /\ tracker.rounds[j].round_number = j
           /\ j = Len(tracker.rounds)
           /\ pc \in {"resolve", "final", "done"}
           /\ \A n \in 1..Len(invocations) : invocations[n].round <= j
           /\ \A k \in 1..Len(calls) :
                calls[k].rounds_before >= j
                => calls[k].kind = "final" /\ calls[k].tools = "absent"
           /\ (Done => /\ Cardinality(FinalCalls) = 1
                       /\ LastCall.kind = "final"
                       /\ LastCall.rounds_before = j
                       /\ result.cause \in {"none", "model", "text"}
                       /\ AnsweredByLastCall)

C7_Witness ==
    /\ Done /\ max_tool_rounds = 2
    /\ Len(tracker.rounds) = 1 /\ tracker.rounds[1].error = "AttributeError"
    /\ Len(invocations) = 1
    /\ Len(calls) = 2 /\ calls[2].kind = "final"
    /\ result.status = "returned" /\ result.value = 2

\* C8: a failure of any model call (first, follow-up or Final-Answer
\* Fetcher) propagates to the caller: the loop does not catch it, no round
\* record is made for it and no model call follows it.
C8_ModelFailurePropagates ==
    /\ \A k \in 1..Len(calls) :
        ~calls[k].ok => /\ k = Len(calls)
                        /\ Done
                        /\ result = ModelFailure
    /\ \A j \in 1..Len(tracker.rounds) : tracker.rounds[j].error # "ModelError"

\* C9: if tools is omitted, generate_response never enters the round loop
\* and never invokes the tool manager, whatever the stop_reason of the first
\* response and whether or not a tool manager is supplied; one model call is
\* issued.
C9_NoToolsNoLoop ==
    tools = "none" => /\ ~entered
                      /\ invocations = <<>>
                      /\ Len(calls) <= 1
                      /\ (Done => Len(calls) = 1)

\* C10: if tools are advertised, no tool manager is supplied and the first
\* response requests tool use, generate_response issues one model call,
\* executes no round and returns the text of the first response as a string,
\* without raising.
C10_NoManagerReturnsText ==
    (/\ Done /\ tools = "some" /\ ~tool_manager
     /\ Len(calls) >= 1 /\ calls[1].ok
     /\ calls[1].response.stop_reason = "tool_use")
    => /\ Len(calls) = 1
       /\ ~entered /\ invocations = <<>>
       /\ result.status = "returned"
       /\ result.value = calls[1].response.content[1].text

\* C11: after the round loop, the Final-Answer Fetcher is called exactly
\* when there is no latest response (round cap reached) or the latest
\* response still requests tool use (a round-level error occurred);
\* otherwise the text of the latest response is returned and the fetcher is
\* not called.
LatestTerminal == current_response.stop_reason \notin {"none", "tool_use"}

C11_FetcherIffNeeded ==
    /\ (pc = "final" => entered /\ ~LatestTerminal)
    /\ (entered /\ Done) =>
        /\ (FinalCalls # {} <=> ~LatestTerminal)
        /\ (LatestTerminal =>
                /\ LastCall.kind = "follow_up"
                /\ LastCall.response = current_response
                /\ result.status = "returned"
                /\ result.value = current_response.content[1].text)
        /\ (~LatestTerminal =>
                /\ LastCall.kind = "final" /\ Cardinality(FinalCalls) = 1
                /\ (current_response.stop_reason = "none"
                        => tracker.current_round = tracker.max_rounds)
                /\ (current_response.stop_reason = "tool_use"
                        => tracker.rounds[Len(tracker.rounds)].error # "None"))

C11_Witness ==
    /\ Done /\ entered /\ max_tool_rounds = 2
    /\ LatestTerminal /\ FinalCalls = {}
    /\ Len(calls) = 2 /\ Len(tracker.rounds) = 1
    /\ result.status = "returned" /\ result.value = 2

\* C12: for max_rounds = N and k add_round calls on a tracker, can_continue()
\* is true exactly when k < N: true after 0..N-1 additions, false after the
\* N-th.
C12_CanContinueIffBelowCap ==
    /\ (can_continue(tracker) <=> probe.adds < max_tool_rounds)
    /\ (probe.op = "can_continue" => (probe.flag <=> probe.adds < max_tool_rounds))

C12_Witness ==
    /\ probe.op = "can_continue" /\ max_tool_rounds = 2
    /\ probe.adds = 2 /\ ~probe.flag

\* C13 (as claimed): current_round <= max_rounds holds after every
\* add_round, for any sequence of add_round calls.
C13_NeverAboveCap ==
    probe.adds >= 1 => tracker.current_round <= tracker.max_rounds

\* C13 (amended): current_round <= max_rounds holds after every add_round
\* that is called while can_continue() is true.
C13_GuardedAddWithinCap ==
    (probe.op = "add_round" /\ probe.flag)
    => tracker.current_round <= tracker.max_rounds

C13_Witness ==
    /\ probe.op = "add_round" /\ probe.flag
    /\ tracker.current_round = tracker.max_rounds
    /\ tracker.max_rounds = 2

\* C14: for any sequence of add_round calls, get_total_tool_calls() is the
\* sum of the lengths of tool_calls of the rounds added so far, 0 for an
\* empty tracker.
C14_TotalIsSum ==
    /\ get_total_tool_calls(tracker) = probe.sum
    /\ (probe.op = "get_total_tool_calls" => probe.num = probe.sum)

C14_Witness ==
    /\ probe.op = "get_total_tool_calls"
    /\ probe.adds = 2 /\ probe.num = 3
    /\ Len(tracker.rounds[1].tool_calls) = 2
    /\ Len(tracker.rounds[2].tool_calls) = 1

\* C15: the record returned by _execute_tool_round has as many tool_results
\* as tool_calls, and result i carries the id of call i, whether the calls
\* succeeded or failed.
C15_ResultsMatchCalls ==
    /\ \A j \in 1..Len(tracker.rounds) :
        LET r == tracker.rounds[j] IN
        r.error = "None"
        => /\ Len(r.tool_results) = Len(r.tool_calls)
           /\ \A i \in 1..Len(r.tool_calls) :
                r.tool_results[i].tool_use_id = r.tool_calls[i].id
    /\ (pc = "round"
        => /\ Len(tool_results) = Len(tool_calls)
           /\ \A i \in 1..Len(tool_calls) :
                tool_results[i].tool_use_id = tool_calls[i].id)

C15_Witness ==
    /\ Len(tracker.rounds) = 2
    /\ tracker.rounds[1].error = "None" /\ tracker.rounds[2].error = "None"
    /\ Len(tracker.rounds[1].tool_calls) = 1
    /\ Len(tracker.rounds[2].tool_calls) = 2
    /\ ~tracker.rounds[1].tool_results[1].is_error
    /\ tracker.rounds[2].tool_results[1].is_error
    /\ tracker.rounds[2].tool_results[2].is_error

\* C16: a tool result is flagged is_error exactly when execute_tool raised
\* for that call, and a success carries the returned string as its content;
\* a failing call does not keep the remaining tool_use blocks of the response
\* from being executed, and _execute_tool_round does not raise because of it.
InvocationsOfRound(j) == {n \in 1..Len(invocations) : invocations[n].round = j}

C16_ErrorFlagExact ==
    /\ \A n \in 1..Len(invocations) :
        LET v == invocations[n] IN
        (Len(tracker.rounds) >= v.round /\ tracker.rounds[v.round].error = "None")
        => LET r == tracker.rounds[v.round] IN
           \E p \in 1..Len(r.tool_calls) :
                /\ r.tool_calls[p].id = v.id
                /\ r.tool_results[p].tool_use_id = v.id
                /\ (r.tool_results[p].is_error <=> ~v.ok)
                /\ (v.ok => r.tool_results[p].content = [prefix |-> "", body |-> v.out])
                /\ (~v.ok => r.tool_results[p].content.body = v.out)
    /\ \A j \in 1..Len(tracker.rounds) :
        LET r == tracker.rounds[j] IN
        /\ (r.error = "None"
            => /\ Ids(r.tool_calls) = Ids(ToolUseBlocks(calls[j].response.content))
               /\ Cardinality(InvocationsOfRound(j)) = Len(r.tool_calls))
        /\ (r.error = "AttributeError" => ~WellFormed(calls[j].response))

C16_Witness ==
    /\ Len(tracker.rounds) = 1 /\ tracker.rounds[1].error = "None"
    /\ Len(invocations) = 2 /\ invocations[1].ok /\ ~invocations[2].ok
    /\ ~tracker.rounds[1].tool_results[1].is_error
    /\ tracker.rounds[1].tool_results[2].is_error
    /\ pc = "follow_up"

\* C17: every model call of one generate_response invocation (first,
\* follow-up, Final-Answer Fetcher) carries the same system content: the
\* static prompt followed by the prior-conversation block when
\* conversation_history is non-empty, the static prompt alone when it is None
\* or empty.
C17_SameSystemContent ==
    \A k \in 1..Len(calls) :
        calls[k].system =
            [prompt |-> "SYSTEM_PROMPT",
             previous |-> IF history \in {"none", "empty"} THEN "absent" ELSE history]

C17_Witness ==
    /\ Done /\ history = "some" /\ Len(calls) = 3
    /\ calls[1].kind = "first" /\ calls[2].kind = "follow_up"
    /\ calls[3].kind = "final"
    /\ calls[3].system.previous = "some"

\* C18: the first model call advertises the tool set with tool choice auto
\* exactly when tools is provided (a non-empty list) and carries no tools
\* field otherwise; every follow-up call of the round loop advertises the
\* same tool set as the first call.
Advertised(field) == IF field = "some" THEN "some" ELSE "nothing"

C18_SameToolSet ==
    \A k \in 1..Len(calls) :
        /\ (calls[k].kind = "first"
            => /\ k = 1
               /\ (tools = "some" => calls[k].tools = "some" /\ calls[k].tool_choice)
               /\ (tools # "some" => calls[k].tools = "absent" /\ ~calls[k].tool_choice))
        /\ (calls[k].kind = "follow_up"
            => /\ Advertised(calls[k].tools) = Advertised(calls[1].tools)
               /\ calls[k].tool_choice)

C18_Witness ==
    /\ tools = "some" /\ Len(calls) = 2
    /\ calls[1].tools = "some" /\ calls[1].tool_choice
    /\ calls[2].kind = "follow_up" /\ calls[2].ok
    /\ calls[2].tools = "some" /\ calls[2].tool_choice
    /\ pc = "loop"

\* C19: generate_response raises only if a model call itself fails: when
\* every model call returns a response it returns a string, whatever tool
\* calls fail and whatever round-level error occurs.
C19_RaisesOnlyOnModelFailure ==
    (Done /\ \A k \in 1..Len(calls) : calls[k].ok) => result.status = "returned"

\* C20: in every reachable state of a tracker current_round is the number of
\* records in rounds, and rounds is append-only: after an add_round the
\* previous sequence of records is a prefix of the new one.
C20_CounterAndAppendOnly ==
    /\ [](tracker.current_round = Len(tracker.rounds))
    /\ [][tracker' # tracker
          => /\ Len(tracker'.rounds) = Len(tracker.rounds) + 1
             /\ SubSeq(tracker'.rounds, 1, Len(tracker.rounds)) = tracker.rounds]_vars

C20_Witness ==
    /\ probe.op = "add_round" /\ probe.adds = 3
    /\ tracker.current_round = 3 /\ Len(tracker.rounds) = 3
    /\ tracker.rounds[1] # tracker.rounds[3]

\* C21: _execute_tool_round invokes the tool manager once per tool_use block
\* of the response, in the order of the blocks, with the name and the
\* arguments of the block; a block of another type gives no invocation, no
\* tool_calls entry and no tool_results entry.
RoundInvocations(j) == SelectSeq(invocations, LAMBDA v : v.round = j)

\* The tool_use blocks of round j that _execute_tool_round has gone through.
BlocksDone(j) ==
    IF Len(calls) < j \/ ~calls[j].ok THEN <<>>
    ELSE LET content == calls[j].response.content IN
         IF pc = "round" /\ j = tracker.current_round + 1
         THEN SelectSeq(SubSeq(content, 1, round_i - 1), LAMBDA b : b.type = "tool_use")
         ELSE IF j <= Len(tracker.rounds)
         THEN SelectSeq(content, LAMBDA b : b.type = "tool_use" /\ b.wf)
         ELSE <<>>

C21_OneInvocationPerBlock ==
    \A j \in 1..(max_tool_rounds + 1) :
        LET inv == RoundInvocations(j)
            blocks == BlocksDone(j)
        IN /\ Len(inv) = Len(blocks)
           /\ \A i \in 1..Len(blocks) :
                /\ inv[i].name = blocks[i].name
                /\ inv[i].input = blocks[i].input
                /\ inv[i].id = blocks[i].id
           /\ (j <= Len(tracker.rounds) /\ tracker.rounds[j].error = "None"
               => /\ Len(tracker.rounds[j].tool_calls) = Len(blocks)
                  /\ Len(tracker.rounds[j].tool_results) = Len(blocks)
                  /\ \A i \in 1..Len(blocks) :
                        tracker.rounds[j].tool_calls[i] =
                            [name |-> blocks[i].name, input |-> blocks[i].input,
                             id |-> blocks[i].id])

C21_Witness ==
    /\ Len(tracker.rounds) = 2
    /\ tracker.rounds[1].error = "None" /\ tracker.rounds[2].error = "None"
    /\ Len(calls[1].response.content) = 2
    /\ Len(calls[2].response.content) = 2
    /\ calls[1].response.content[1].type = "text"
    /\ Len(invocations) = 3
    /\ invocations[1].name = "get_course_outline"
    /\ invocations[2].name = "search_course_content"
    /\ invocations[3].name = "get_course_outline"

\* C22: the calls of one generate_response invocation are strictly
\* sequential.  Tool invocations occur in round order; a tool call of a round
\* starts when the results of all earlier calls of that round are packaged;
\* the invocations of round k lie between model call k and model call k+1;
\* and a model call issued after round k was executed carries every tool
\* result of round k in its history.
ResultsTurnIn(msgs, results) ==
    \E t \in 1..Len(msgs) : msgs[t].role = "user" /\ msgs[t].results = results

C22_Sequential ==
    /\ \A m, n \in 1..Len(invocations) :
          m < n => invocations[m].round <= invocations[n].round
    /\ \A n \in 1..Len(invocations) :
          /\ invocations[n].packaged =
                Cardinality({m \in 1..(n - 1) :
                                invocations[m].round = invocations[n].round})
          /\ invocations[n].calls_before = invocations[n].round
    /\ \A k \in 1..Len(calls) :
          /\ \A n \in 1..Len(invocations) :
                n <= calls[k].invs_before <=> invocations[n].calls_before < k
          /\ \A j \in 1..calls[k].rounds_before :
                tracker.rounds[j].tool_results # <<>>
                    => ResultsTurnIn(calls[k].messages, tracker.rounds[j].tool_results)

C22_Witness ==
    /\ Len(calls) = 3
    /\ Len(invocations) = 4
    /\ invocations[2].packaged = 1 /\ invocations[2].round = 1
    /\ invocations[4].packaged = 1 /\ invocations[4].round = 2
    /\ calls[2].invs_before = 2 /\ calls[3].invs_before = 4
    /\ ResultsTurnIn(calls[3].messages, tracker.rounds[2].tool_results)

\* C23: for every max_tool_rounds = N, one generate_response invocation
\* issues at most N+1 model calls, at most N of them tool-enabled (the first
\* call and the follow-up calls), records at most N rounds, and every tool
\* invocation belongs to a round numbered at most N; this holds under tool
\* failures, round-level errors and failing follow-up calls.
ToolEnabledCalls == {k \in 1..Len(calls) : calls[k].kind # "final"}

C23_Bounded ==
    /\ Len(calls) <= max_tool_rounds + 1
    /\ Cardinality(ToolEnabledCalls) <= max_tool_rounds
    /\ \A k \in 1..Len(calls) : calls[k].tool_choice => k <= max_tool_rounds
    /\ Len(tracker.rounds) <= max_tool_rounds
    /\ \A n \in 1..Len(invocations) :
          /\ invocations[n].round <= max_tool_rounds
          /\ invocations[n].calls_before <= max_tool_rounds

C23_Witness ==
    /\ max_tool_rounds = 2
    /\ Len(calls) = 3
    /\ ~calls[2].ok
    /\ calls[3].kind = "final"
    /\ Len(tracker.rounds) = 2
    /\ tracker.rounds[2].error = "ModelError"
    /\ \E n \in 1..Len(invocations) : ~invocations[n].ok

----------------------------------------------------------------------------
(* Termination: every model call and every tool invocation returns or
   raises, so a step of generate_response that can be taken is taken. *)

\* The tools argument only changes what the model calls carry, not which
\* steps are taken: it is fixed here.
InitLive == Init /\ tools = "some"

SpecLive == InitLive /\ [][Next]_vars /\ WF_vars(Next)

\* Iterations of the while loop of line 163 entered so far.
Iterations ==
    Cardinality({j \in 1..Len(tracker.rounds) :
                    tracker.rounds[j].error # "ModelError"})
    + (IF pc = "round" THEN 1 ELSE 0)

\* C24: every generate_response invocation reaches a terminal state (it
\* returns a string or raises), and the round loop runs at most
\* max_tool_rounds iterations whatever the model answers.
C24_Terminates ==
    /\ <>(Done /\ result.status \in {"returned", "raised"})
    /\ [](Iterations <= max_tool_rounds)

C24_Witness ==
    /\ Done
    /\ result.status = "returned"
    /\ max_tool_rounds = 2
    /\ Iterations = 2
    /\ Len(calls) = 3

----------------------------------------------------------------------------

\* C25: in every tracker state of a generate_response invocation the i-th
\* recorded round has round_number i, a round-level error record included,
\* so round numbers increase strictly along rounds.
C25_RoundNumbers ==
    /\ \A i \in 1..Len(tracker.rounds) : tracker.rounds[i].round_number = i
    /\ \A i, j \in 1..Len(tracker.rounds) :
          i < j => tracker.rounds[i].round_number < tracker.rounds[j].round_number

C25_Witness ==
    /\ Len(tracker.rounds) = 2
    /\ tracker.rounds[1].error = "None"
    /\ tracker.rounds[2].error = "ModelError"
    /\ tracker.rounds[2].round_number = 2

\* C26: during a generate_response invocation the tracker's current_round
\* never exceeds max_tool_rounds, also when a round-level error record is
\* appended, be it for a round that raised or for an exception raised after
\* the round had been added.
C26_CurrentRoundWithinCap == tracker.current_round <= max_tool_rounds

C26_Witness ==
    /\ Done
    /\ tracker.current_round = max_tool_rounds
    /\ Len(tracker.rounds) = 2
    /\ tracker.rounds[2].error = "ModelError"
    /\ Len(tracker.rounds[1].tool_calls) = 2

\* C27: the message history passed to every model call starts with the user
\* query turn, alternates strictly between user and assistant turns, and ends
\* with a user turn, for every shape of the model's responses, a response
\* with stop_reason tool_use and no tool_use block included.
Alternates(msgs) ==
    /\ Len(msgs) > 0
    /\ msgs[1] = UserQuery
    /\ \A t \in 1..Len(msgs) :
          msgs[t].role = (IF t % 2 = 1 THEN "user" ELSE "assistant")
    /\ msgs[Len(msgs)].role = "user"

C27_HistoryAlternates ==
    \A k \in 1..Len(calls) : Alternates(calls[k].messages)

\* C28: when generate_response returns, the returned string is the text of
\* the last model call it issued, never the text of an earlier response.
TextOf(k) == calls[k].response.content[1].text

C28_LastCallText ==
    Done /\ result.status = "returned"
        => /\ LastCall.ok
           /\ Len(LastCall.response.content) > 0
           /\ LastCall.response.content[1].type = "text"
           /\ result.value = TextOf(Len(calls))
           /\ \A k \in 1..(Len(calls) - 1) :
                 calls[k].ok /\ Len(calls[k].response.content) > 0
                     => result.value # TextOf(k)

C28_Witness ==
    /\ Done /\ result.status = "returned"
    /\ Len(calls) = 3
    /\ Len(calls[1].response.content) = 2
    /\ calls[1].response.content[1].type = "text"
    /\ ~calls[2].ok
    /\ calls[3].kind = "final"
    /\ result.value = TextOf(3)

\* C29: the message history only grows.  A model call issued after a
\* successfully executed round is given the history of the call before it
\* extended by exactly the assistant turn with that call's raw response and,
\* when the round has tool results, the user turn with them; the history of
\* every earlier model call is a prefix of the history of every later one.
IsPrefix(s, t) == Len(s) <= Len(t) /\ SubSeq(t, 1, Len(s)) = s

ExecutedBetween(k) ==
    /\ calls[k + 1].rounds_before = calls[k].rounds_before + 1
    /\ tracker.rounds[calls[k + 1].rounds_before].error = "None"

Extension(k) ==
    LET content == calls[k].response.content
        results == tracker.rounds[calls[k + 1].rounds_before].tool_results
        turn == [role |-> "assistant", text |-> "", blocks |-> content,
                 results |-> <<>>]
    IN IF results = <<>> THEN <<turn>>
       ELSE <<turn, [role |-> "user", text |-> "", blocks |-> <<>>,
                     results |-> results]>>

C29_HistoryGrows ==
    /\ \A k \in 1..(Len(calls) - 1) :
          /\ ExecutedBetween(k)
                => calls[k + 1].messages = calls[k].messages \o Extension(k)
          /\ ~ExecutedBetween(k) => calls[k + 1].messages = calls[k].messages
    /\ \A k, l \in 1..Len(calls) :
          k <= l => IsPrefix(calls[k].messages, calls[l].messages)
    /\ entered => IsPrefix(LastCall.messages, messages)

C29_Witness ==
    /\ Len(calls) = 3
    /\ Len(calls[1].messages) = 1
    /\ Len(calls[2].messages) = 3
    /\ Len(calls[3].messages) = 5
    /\ Len(calls[3].messages[5].results) = 2
    /\ calls[3].messages[3].results[1].is_error

\* C30: when round execution raises, the message history is left as it was:
\* neither the assistant response of the failed round nor a tool result
\* obtained in it is appended, and the Final-Answer Fetcher is given exactly
\* the history of the most recent model call.
RoundRaised(j) ==
    j <= Len(tracker.rounds) /\ tracker.rounds[j].error = "AttributeError"

C30_HistoryKeptOnRoundError ==
    \A j \in 1..max_tool_rounds :
        RoundRaised(j)
            => /\ messages = calls[j].messages
               /\ \A t \in 1..Len(messages) :
                     /\ messages[t].role = "assistant"
                            => \E k \in 1..(j - 1) :
                                  messages[t].blocks = calls[k].response.content
                     /\ \A r \in 1..Len(messages[t].results) :
                            \A n \in 1..Len(invocations) :
                                invocations[n].round = j
                                    => messages[t].results[r].tool_use_id # invocations[n].id
               /\ \A k \in FinalCalls :
                     k = j + 1 /\ calls[k].messages = calls[j].messages

C30_Witness ==
    /\ Done
    /\ RoundRaised(2)
    /\ Len(calls) = 3
    /\ calls[3].kind = "final"
    /\ Len(calls[3].messages) = 3
    /\ Len(invocations) = 2
    /\ invocations[2].round = 2

----------------------------------------------------------------------------

\* The tool-requesting responses that the round loop has taken up: the
\* responses of the first call and of the follow-up calls that came back
\* with stop_reason tool_use.
ProcessedResponses ==
    {k \in 1..Len(calls) :
        calls[k].kind # "final" /\ calls[k].ok
        /\ calls[k].response.stop_reason = "tool_use"}

\* C31: at the end of a generate_response invocation that entered the round
\* loop, the tracker holds exactly one round record, successful or error, per
\* tool-requesting model response the loop processed.
C31_OneRecordPerResponse ==
    Done /\ entered => Len(tracker.rounds) = Cardinality(ProcessedResponses)

\* C32: at the end of a generate_response invocation that entered the round
\* loop, get_total_tool_calls() of the tracker equals the number of
\* tool-manager invocations made, also when a round failed part-way through.
C32_TotalCountsInvocations ==
    Done /\ entered => get_total_tool_calls(tracker) = Len(invocations)

\* C34: add_round appends one record at the end of rounds and increments
\* current_round by exactly 1; max_rounds and every record already in rounds
\* stay as they were; can_continue and get_total_tool_calls leave the tracker
\* as it is.
C34_AddRoundFrame ==
    [][/\ probe'.adds = probe.adds + 1
          => /\ tracker'.max_rounds = tracker.max_rounds
             /\ tracker'.current_round = tracker.current_round + 1
             /\ Len(tracker'.rounds) = Len(tracker.rounds) + 1
             /\ \A i \in 1..Len(tracker.rounds) :
                   tracker'.rounds[i] = tracker.rounds[i]
             /\ tracker'.rounds[Len(tracker'.rounds)] \in RoundData(probe'.adds)
       /\ probe'.adds = probe.adds => tracker' = tracker]_vars

C34_Witness ==
    /\ probe.op = "get_total_tool_calls"
    /\ probe.adds = 3
    /\ probe.num = 3
    /\ tracker.max_rounds = 2
    /\ tracker.current_round = 3
    /\ Len(tracker.rounds) = 3

----------------------------------------------------------------------------
(* generate_response on generators constructed with different model names *)

InitBase ==
    /\ InitLocals(1..MaxRounds, {"some"})
    /\ tools = "some"
    /\ base_params \in {BaseParams(m) : m \in ModelNames}
    /\ parked = NoParked

SpecBase == InitBase /\ [][Next]_vars

\* C36: every model call of generate_response, the first one, the follow-up
\* ones and the one of the Final-Answer Fetcher, carries the model name the
\* generator was constructed with, temperature 0 and max_tokens 800, and
\* generate_response never changes the generator's base parameters.
C36_BaseParamsFixed ==
    /\ [](\A k \in 1..Len(calls) :
            /\ calls[k].model = base_params.model
            /\ calls[k].temperature = 0
            /\ calls[k].max_tokens = 800)
    /\ [](base_params.temperature = 0 /\ base_params.max_tokens = 800)
    /\ [][base_params' = base_params]_vars

C36_Witness ==
    /\ Len(calls) = 3
    /\ calls[1].kind = "first"
    /\ calls[2].kind = "follow_up"
    /\ calls[3].kind = "final"
    /\ base_params.model = "model_b"
    /\ calls[3].model = "model_b"
    /\ calls[3].max_tokens = 800

----------------------------------------------------------------------------
(* Defaults: generate_response called without max_tool_rounds, and trackers
   constructed with and without max_rounds *)

InitDefault ==
    \/ /\ InitLocals({MaxToolRoundsArg(FALSE, 1)}, {"some"})
       /\ base_params = BaseParams("model_a")
       /\ parked = NoParked
    \/ /\ max_tool_rounds \in 1..MaxRounds
       /\ InitTrackerWith(MaxRoundsArg(TRUE, max_tool_rounds), "init")
    \/ /\ max_tool_rounds = 1
       /\ InitTrackerWith(MaxRoundsArg(FALSE, max_tool_rounds), "init_default")

NextDefault ==
    \/ Next
    \/ NextTracker

SpecDefault == InitDefault /\ [][NextDefault]_vars

\* C35: a newly constructed SequentialToolTracker has current_round 0, no
\* rounds and max_rounds equal to the constructor argument, 2 when it is
\* omitted; generate_response called without max_tool_rounds executes at
\* most 2 tool rounds.
C35_Defaults ==
    /\ pc = "tracker" /\ probe.op \in {"init", "init_default"}
          => /\ tracker.current_round = 0
             /\ tracker.rounds = <<>>
             /\ tracker.max_rounds =
                    (IF probe.op = "init" THEN max_tool_rounds ELSE 2)
    /\ pc # "tracker"
          => /\ entered => tracker.max_rounds = 2
             /\ Len(tracker.rounds) <= 2
             /\ \A n \in 1..Len(invocations) : invocations[n].round <= 2

C35_Witness ==
    /\ Done
    /\ Len(calls) = 3
    /\ Len(tracker.rounds) = 2
    /\ tracker.rounds[1].error = "None" /\ tracker.rounds[2].error = "None"
    /\ Len(invocations) = 4
    /\ invocations[4].round = 2
    /\ result.status = "returned"

----------------------------------------------------------------------------
(* Two generate_response invocations on the same AIGenerator.  The client
   and the tool manager (calls, invocations) and self.base_params belong to
   the generator; the arguments and locals belong to the invocation.  One
   invocation runs while the other is parked; Switch hands control over. *)

\* The arguments and locals of the running invocation.
Frame ==
    [pc |-> pc, tools |-> tools, tool_manager |-> tool_manager,
     max_tool_rounds |-> max_tool_rounds, history |-> history,
     api_params |-> api_params, entered |-> entered, tracker |-> tracker,
     messages |-> messages, current_response |-> current_response,
     round_i |-> round_i, tool_calls |-> tool_calls,
     tool_results |-> tool_results, result |-> result]

Shared_tracker == {"tracker"}

\* The names of Frame that are stored on the AIGenerator object instead of
\* in the invocation: none, lines 115 and 158-160 assign local names.
Shared == {}

\* What the invocation that resumes finds under a name.
Resume(name, now) == IF name \in Shared THEN now ELSE parked.frame[name]

InitTwo ==
    /\ InitLocals(1..MaxRounds, {"some"})
    /\ tools = "some"
    /\ tool_manager = TRUE
    /\ base_params = BaseParams("model_a")
    /\ parked = [id |-> 2, switches |-> 0,
                 frame |-> [NoFrame EXCEPT !.tools = "some",
                                           !.tool_manager = TRUE]]

Switch ==
    /\ parked.id # 0
    /\ parked.switches < MaxSwitches
    /\ parked.frame.pc # "done"     \* a returned invocation has no step left
    /\ parked' = [id |-> Running, switches |-> parked.switches + 1,
                  frame |-> Frame]
    /\ pc' = Resume("pc", pc)
    /\ tools' = Resume("tools", tools)
    /\ tool_manager' = Resume("tool_manager", tool_manager)
    /\ max_tool_rounds' = Resume("max_tool_rounds", max_tool_rounds)
    /\ history' = Resume("history", history)
    /\ api_params' = Resume("api_params", api_params)
    /\ entered' = Resume("entered", entered)
    /\ tracker' = Resume("tracker", tracker)
    /\ messages' = Resume("messages", messages)
    /\ current_response' = Resume("current_response", current_response)
    /\ round_i' = Resume("round_i", round_i)
    /\ tool_calls' = Resume("tool_calls", tool_calls)
    /\ tool_results' = Resume("tool_results", tool_results)
    /\ result' = Resume("result", result)
    /\ UNCHANGED <<calls, invocations, probe, base_params>>

NextTwo ==
    \/ Next
    \/ Switch

SpecTwo == InitTwo /\ [][NextTwo]_vars

\* The arguments and locals of invocation o, running or parked.
FrameOf(o) == IF Running = o THEN Frame ELSE parked.frame

OwnCalls(o) == {k \in 1..Len(calls) : calls[k].owner = o}

\* The ids of the tool_use blocks the model sent to invocation o.
IdsSentTo(o) ==
    UNION {{calls[k].response.content[i].id :
                i \in 1..Len(calls[k].response.content)} : k \in OwnCalls(o)}

\* C33: the round tracker and the message history belong to the invocation.
\* For two generate_response invocations on one AIGenerator, run one after
\* the other or interleaved, each invocation's round budget, history and
\* result are those of its own arguments, its own model calls and its own
\* rounds, whatever the other invocation has done.
C33_InvocationsIndependent ==
    \A o \in {1, 2} :
        LET f == FrameOf(o) IN
        /\ f.entered =>
              /\ f.tracker.max_rounds = f.max_tool_rounds
              /\ f.tracker.current_round <= f.max_tool_rounds
              /\ f.tracker.current_round = Len(f.tracker.rounds)
        /\ \A k \in OwnCalls(o) :
              /\ calls[k].rounds_before =
                    Cardinality({j \in OwnCalls(o) : j < k})
              /\ calls[k].system = SystemContent(f.history)
              /\ calls[k].messages[1] = UserQuery
              /\ \A t \in 2..Len(calls[k].messages) :
                    LET turn == calls[k].messages[t] IN
                    /\ turn.role = "assistant"
                          => \E j \in OwnCalls(o) :
                                j < k /\ turn.blocks = calls[j].response.content
                    /\ \A r \in 1..Len(turn.results) :
                          turn.results[r].tool_use_id \in IdsSentTo(o)
              /\ \A j \in OwnCalls(o) :
                    j < k => IsPrefix(calls[j].messages, calls[k].messages)
        /\ \A n \in 1..Len(invocations) :
              invocations[n].owner = o
                  => /\ invocations[n].id \in IdsSentTo(o)
                     /\ invocations[n].round <= f.max_tool_rounds
        /\ Cardinality({k \in OwnCalls(o) : calls[k].kind # "final"})
              <= f.max_tool_rounds
        /\ f.pc = "done" /\ f.result.status = "returned"
              => \E k \in OwnCalls(o) :
                    /\ \A j \in OwnCalls(o) : j <= k
                    /\ f.result.value = calls[k].response.content[1].text

\* Invocation 1 ran two rounds and invocation 2 its single round, and both
\* returned; invocation 1 was parked after its first model call and resumed
\* when invocation 2 had returned.
C33_Witness ==
    /\ parked.id = 2
    /\ parked.switches = 2
    /\ pc = "done" /\ result.status = "returned"
    /\ parked.frame.pc = "done" /\ parked.frame.result.status = "returned"
    /\ Len(tracker.rounds) = 2
    /\ Len(parked.frame.tracker.rounds) = 1
    /\ Len(calls) = 5
    /\ calls[1].owner = 1 /\ calls[2].owner = 2 /\ calls[5].owner = 1

====
